---- MODULE Spec2Model ----
(***************************************************************************)
(* Model of src/main.py: a Telegram bot that invites the users listed in   *)
(* a CSV file into a group.  One asyncio event loop runs                   *)
(*   - the update dispatcher, which serves one update at a time            *)
(*     (Application.builder() without concurrent updates, lines 222-225),  *)
(*   - every process_users task that a "start" button has created          *)
(*     (asyncio.create_task, line 163).                                    *)
(* Tasks interleave only at their awaits.  A process_users task is cut at   *)
(* its awaits: get_chat/add_chat_member (pc "adding"), the progress         *)
(* broadcast (pc "notifying") and asyncio.sleep (pc "sleeping").            *)
(*                                                                         *)
(* Each handler touches the shared state on one side of its awaits only,   *)
(* so each handler is one action, placed where it touches the state:       *)
(*   - "stop" and "stats" act before their first await;                    *)
(*   - every other handler acts after an await (the "start" button creates *)
(*     its task after awaiting the reply; the flag it clears before that   *)
(*     await is written by no task).                                       *)
(* A task that has been created runs its first step as soon as the         *)
(* dispatcher awaits.  So while a created task has not run yet (pc         *)
(* "launched") no handler that acts after an await can act, and at most    *)
(* one handler that acts before its await can (variable awaited).          *)
(*                                                                         *)
(* The rows of the CSV file are identified by their position 1..n.         *)
(***************************************************************************)
EXTENDS Integers, Sequences, FiniteSets, TLC

\* ------------------------------------------------------------------ bounds
\* number of "start" presses in the short scenarios
MaxJobs == 2
\* rows read from the CSV file, over all the runs of a short scenario
MaxRows == 3
\* length of the CSV file in the long-run scenario (two progress reports)
LongLen == 20
\* number of ad-hoc single adds the admins perform
MaxAdHoc == 1
\* longest username given to add_user_to_group in the normalisation runs
MaxLen == 3
\* times the normalisation is applied to one username
MaxPasses == 2

\* ------------------------------------------------------- program constants
\* idx % 10 == 0
ProgressEvery == 10

\* ADMIN_IDS, in the order of the environment variable
ADMIN_IDS == <<1, 2>>

\* a caller that is not in ADMIN_IDS
Outsiders == {3}

AdminSet == {ADMIN_IDS[i] : i \in 1..Len(ADMIN_IDS)}

Users == AdminSet \cup Outsiders

\* the five button labels, a free text, and the /start command
BtnStart  == "start"
BtnStop   == "stop"
BtnStats  == "stats"
BtnAdd    == "add"
BtnCancel == "cancel"
FreeTxt   == "text"
CmdStart  == "/start"

Texts == {BtnStart, BtnStop, BtnStats, BtnAdd, BtnCancel, FreeTxt, CmdStart}

\* ------------------------------------------------------------------- state
VARIABLES
  app,            \* "init" before post_init has run, then "polling"
  stop_event,     \* stop_event.is_set()
  session_stats,  \* [success, failed, total]
  user_data,      \* user -> context.user_data.get('awaiting_username')
  jobs,           \* the process_users tasks created so far: [pc, n, idx]
  obs,            \* per task, what an observer has recorded of it
  awaited,        \* the dispatcher has awaited since it created a task
                  \* that has not run yet
  out,            \* what the last step sent: [caller, job, msgs, failed]
  env,            \* what the environment does: [users, texts, starts,
                  \* lens, rows, dialogs, adds, flaky]
  call            \* add_user_to_group's username: [arg, username, passes]

vars ==
  <<app, stop_event, session_stats, user_data, jobs, obs, awaited, out, env,
    call>>

\* the environments explored:
\*   users: who sends requests         starts: "start" presses still to come
\*   texts: the requests they send
\*   lens:  lengths the file may have   rows:   rows still to be read
\*   dialogs: add dialogs in all        adds:   add dialogs still to come
\*   flaky: the admins a notification may fail to reach
\* overlapping short runs, one long run, and single adds around a short run
Scenarios ==
  { [users |-> {ADMIN_IDS[1]}, texts |-> {BtnStart, BtnStop, BtnStats},
     starts |-> MaxJobs,
     lens |-> 0..MaxRows, rows |-> MaxRows, dialogs |-> 0, adds |-> 0,
     flaky |-> {}],
    [users |-> {ADMIN_IDS[1]}, texts |-> Texts, starts |-> 1,
     lens |-> {LongLen}, rows |-> LongLen, dialogs |-> 0, adds |-> 0,
     flaky |-> AdminSet],
    [users |-> Users, texts |-> Texts, starts |-> 1,
     lens |-> 0..MaxRows, rows |-> MaxRows,
     dialogs |-> MaxAdHoc, adds |-> MaxAdHoc, flaky |-> AdminSet] }

\* the characters of a username: the mention marker and two others
Chars == {"@", "a", "b"}

\* the usernames of length at most MaxLen, the empty one included
Strings == UNION {[1..n -> Chars] : n \in 0..MaxLen}

\* username.startswith('@')
startswith_at(s) == Len(s) > 0 /\ s[1] = "@"

normalizeAlways(s) == <<"@">> \o s

\* add_user_to_group, lines 92-93: prepend '@' unless it is there
normalize(s) == IF startswith_at(s) THEN s ELSE <<"@">> \o s

Running == {"adding", "notifying", "sleeping"}

\* no created task is still waiting for its first step
NoneLaunched == \A j \in 1..Len(jobs) : jobs[j].pc # "launched"

Finished == {"stopped", "completed", "empty"}

Msg(to, text, data) == [to |-> to, text |-> text, data |-> data]

\* update.message.reply_text(...)
Reply(u, text, data) == <<Msg(u, text, data)>>

CmdOut(u, msgs) == [caller |-> u, job |-> 0, msgs |-> msgs, failed |-> {}]

JobOut(j, msgs) == [caller |-> 0, job |-> j, msgs |-> msgs, failed |-> {}]

\* notify_admin: one send per admin, in list order; a failed send is logged
notify_admin(text, data) ==
  [i \in 1..Len(ADMIN_IDS) |-> Msg(ADMIN_IDS[i], text, data)]

\* the first position of ADMIN_IDS whose send raises, Len + 1 if none does
FirstRaise(failed) ==
  IF \E i \in 1..Len(ADMIN_IDS) : ADMIN_IDS[i] \in failed
  THEN CHOOSE i \in 1..Len(ADMIN_IDS) :
         /\ ADMIN_IDS[i] \in failed
         /\ \A k \in 1..(i - 1) : ADMIN_IDS[k] \notin failed
  ELSE Len(ADMIN_IDS) + 1

SentUntilRaise(failed) ==
  1..(IF FirstRaise(failed) > Len(ADMIN_IDS) THEN Len(ADMIN_IDS)
      ELSE FirstRaise(failed))

\* notify_admin's for loop with the try inside it: the positions of ADMIN_IDS
\* a send is attempted for when the sends to the admins in failed raise
Sent(failed) == 1..Len(ADMIN_IDS)

\* task j calls notify_admin and the sends to the admins in failed raise
Notified(j, text, data, failed) ==
  [caller |-> 0, job |-> j,
   msgs |-> [i \in Sent(failed) |-> notify_admin(text, data)[i]],
   failed |-> failed]

stop_event_toggle(flag) == ~flag

\* stop_event.set(): the flag is set whatever it was
stop_event_set(flag) == TRUE

stats_text_clamped(stats) ==
  <<stats.total, stats.success, stats.failed,
    IF stats.total - stats.success - stats.failed < 0 THEN 0
    ELSE stats.total - stats.success - stats.failed>>

\* stats_text: total, success, failed and what remains
stats_text(stats) ==
  <<stats.total, stats.success, stats.failed,
    stats.total - stats.success - stats.failed>>

add_reply_always(ok) == "added"

\* the reply of the ad-hoc add: success or failure of add_user_to_group
add_reply(ok) == IF ok THEN "added" ELSE "not_added"

is_set_never(flag) == FALSE

\* stop_event.is_set(), read at the top of the loop body
is_set(flag) == flag

IsAdminOpen(u) == TRUE

\* restricted: update.effective_user.id not in ADMIN_IDS
IsAdmin(u) == u \in AdminSet

BumpSuccessOnly(stats, ok) ==
  IF ok THEN [stats EXCEPT !.success = @ + 1] ELSE stats

\* add_user_to_group: the counter the outcome of the two API calls increments
Bump(stats, ok) ==
  IF ok THEN [stats EXCEPT !.success = @ + 1]
        ELSE [stats EXCEPT !.failed = @ + 1]

IsProgressPointOff(idx) == idx % ProgressEvery = 1

\* if idx % 10 == 0
IsProgressPoint(idx) == idx % ProgressEvery = 0

\* the number of identities task j has handled
Processed(j) ==
  CASE jobs[j].pc \in {"notifying", "sleeping", "completed"} -> jobs[j].idx
    [] jobs[j].pc \in {"adding", "stopped"} -> jobs[j].idx - 1
    [] OTHER -> 0

\* observer: a task is created; flag0 is the flag before the request, solo
\* tells whether every earlier task had returned
NewObs(flag) ==
  [flag0 |-> flag, attempts |-> <<>>, progress |-> <<>>,
   stop_first |-> {}, stop_last |-> {},
   solo |-> \A i \in 1..Len(jobs) : jobs[i].pc \in Finished]

\* observer: a command other than Stop has been served
Quiet(o) == [j \in 1..Len(o) |-> [o[j] EXCEPT !.stop_last = {}]]

\* observer: Stop has been served; where each running task was
Marked(o) ==
  [j \in 1..Len(o) |->
     IF jobs[j].pc \in Running
     THEN [o[j] EXCEPT
             !.stop_first = IF @ = {} THEN {Processed(j)} ELSE @,
             !.stop_last = IF jobs[j].pc = "sleeping" /\ jobs[j].idx < jobs[j].n
                           THEN {jobs[j].idx} ELSE {}]
     ELSE [o[j] EXCEPT !.stop_last = {}]]

\* ------------------------------------------------------------------- Init
Init ==
  /\ app = "init"
  /\ stop_event = FALSE
  /\ session_stats = [success |-> 0, failed |-> 0, total |-> 0]
  /\ user_data = [u \in Users |-> FALSE]
  /\ jobs = <<>>
  /\ obs = <<>>
  /\ awaited = FALSE
  /\ out = CmdOut(0, <<>>)
  /\ env \in Scenarios
  /\ call = [arg |-> <<>>, username |-> <<>>, passes |-> 0]

\* post_init: the startup message goes to ADMIN_IDS[0] only
post_init ==
  /\ app = "init"
  /\ app' = "polling"
  /\ out' = CmdOut(0, <<Msg(ADMIN_IDS[1], "startup", <<>>)>>)
  /\ UNCHANGED <<awaited, stop_event, session_stats, user_data, jobs, obs, env, call>>

\* ------------------------------------------------------------- handlers
\* restricted: the caller is not an admin; any text, the /start command too
Denied(u, text) ==
  /\ app = "polling"
  /\ NoneLaunched
  /\ ~IsAdmin(u)
  /\ text \in env.texts
  /\ out' = CmdOut(u, Reply(u, "denied", <<>>))
  /\ UNCHANGED <<awaited, app, stop_event, session_stats, user_data, jobs, obs, env, call>>

\* start: the /start command
start(u) ==
  /\ app = "polling"
  /\ NoneLaunched
  /\ IsAdmin(u)
  /\ CmdStart \in env.texts
  /\ out' = CmdOut(u, Reply(u, "ready", <<>>))
  /\ obs' = Quiet(obs)
  /\ UNCHANGED <<awaited, app, stop_event, session_stats, user_data, jobs, env, call>>

\* handle_messages, text == "start": clear the flag, reply, create the task
StartBtn(u) ==
  /\ app = "polling"
  /\ NoneLaunched
  /\ IsAdmin(u)
  /\ BtnStart \in env.texts
  /\ env.starts > 0
  /\ stop_event' = FALSE
  /\ jobs' = Append(jobs, [pc |-> "launched", n |-> 0, idx |-> 0])
  /\ obs' = Append(Quiet(obs), NewObs(stop_event))
  /\ out' = CmdOut(u, Reply(u, "loading", <<>>))
  /\ env' = [env EXCEPT !.starts = @ - 1]
  /\ UNCHANGED <<awaited, app, session_stats, user_data, call>>

StopBtnWhenIdle(u) ==
  /\ app = "polling"
  /\ \A j \in 1..Len(jobs) : jobs[j].pc \notin Running
  /\ ~awaited
  /\ awaited' = ~NoneLaunched
  /\ IsAdmin(u)
  /\ BtnStop \in env.texts
  /\ stop_event' = stop_event_set(stop_event)
  /\ obs' = Marked(obs)
  /\ out' = CmdOut(u, Reply(u, "stop_ack", <<>>))
  /\ UNCHANGED <<app, session_stats, user_data, jobs, env, call>>

\* handle_messages, text == "stop"
StopBtn(u) ==
  /\ app = "polling"
  /\ ~awaited
  /\ awaited' = ~NoneLaunched
  /\ IsAdmin(u)
  /\ BtnStop \in env.texts
  /\ stop_event' = stop_event_set(stop_event)
  /\ obs' = Marked(obs)
  /\ out' = CmdOut(u, Reply(u, "stop_ack", <<>>))
  /\ UNCHANGED <<app, session_stats, user_data, jobs, env, call>>

\* handle_messages, text == "stats"
StatsBtn(u) ==
  /\ app = "polling"
  /\ ~awaited
  /\ awaited' = ~NoneLaunched
  /\ IsAdmin(u)
  /\ BtnStats \in env.texts
  /\ out' = CmdOut(u, Reply(u, "stats", stats_text(session_stats)))
  /\ obs' = Quiet(obs)
  /\ UNCHANGED <<app, stop_event, session_stats, user_data, jobs, env, call>>

\* handle_messages, text == "add user"
AddBtn(u) ==
  /\ app = "polling"
  /\ NoneLaunched
  /\ IsAdmin(u)
  /\ BtnAdd \in env.texts
  /\ env.adds > 0
  /\ user_data' = [user_data EXCEPT ![u] = TRUE]
  /\ out' = CmdOut(u, Reply(u, "ask_username", <<>>))
  /\ env' = [env EXCEPT !.adds = @ - 1]
  /\ obs' = Quiet(obs)
  /\ UNCHANGED <<awaited, app, stop_event, session_stats, jobs, call>>

\* handle_messages, text == "cancel"
CancelBtn(u) ==
  /\ app = "polling"
  /\ NoneLaunched
  /\ IsAdmin(u)
  /\ BtnCancel \in env.texts
  /\ user_data' = [user_data EXCEPT ![u] = FALSE]
  /\ out' = CmdOut(u, Reply(u, "cancelled", <<>>))
  /\ obs' = Quiet(obs)
  /\ UNCHANGED <<awaited, app, stop_event, session_stats, jobs, env, call>>

AdHocAddKeepsMarker(u, ok) ==
  /\ app = "polling"
  /\ NoneLaunched
  /\ IsAdmin(u)
  /\ FreeTxt \in env.texts
  /\ user_data[u]
  /\ session_stats' = Bump(session_stats, ok)
  /\ out' = CmdOut(u, Reply(u, add_reply(ok), <<>>))
  /\ obs' = Quiet(obs)
  /\ UNCHANGED <<awaited, app, stop_event, jobs, env, call, user_data>>

\* handle_messages, any other text while awaiting_username: one add attempt
AdHocAdd(u, ok) ==
  /\ app = "polling"
  /\ NoneLaunched
  /\ IsAdmin(u)
  /\ FreeTxt \in env.texts
  /\ user_data[u]
  /\ session_stats' = Bump(session_stats, ok)
  /\ user_data' = [user_data EXCEPT ![u] = FALSE]
  /\ out' = CmdOut(u, Reply(u, add_reply(ok), <<>>))
  /\ obs' = Quiet(obs)
  /\ UNCHANGED <<awaited, app, stop_event, jobs, env, call>>

\* handle_messages, any other text while not awaiting: no branch is taken
IgnoredText(u) ==
  /\ app = "polling"
  /\ IsAdmin(u)
  /\ FreeTxt \in env.texts
  /\ ~user_data[u]
  /\ out' = CmdOut(u, <<>>)
  /\ obs' = Quiet(obs)
  /\ UNCHANGED <<awaited, app, stop_event, session_stats, user_data, jobs, env, call>>

\* ------------------------------------------------------ process_users task
\* the top of the loop body for row idx: the stop check, then the add call
Iterate(j, idx, n) ==
  IF is_set(stop_event)
  THEN /\ jobs' = [jobs EXCEPT ![j] = [pc |-> "stopped", n |-> n, idx |-> idx]]
       /\ obs' = [obs EXCEPT ![j].flag0 = FALSE]
       /\ \E failed \in SUBSET env.flaky :
            out' = Notified(j, "stopped", <<>>, failed)
  ELSE /\ jobs' = [jobs EXCEPT ![j] = [pc |-> "adding", n |-> n, idx |-> idx]]
       /\ obs' = [obs EXCEPT ![j].flag0 = FALSE,
                             ![j].attempts = Append(@, idx)]
       /\ out' = JobOut(j, <<>>)

\* the task's first run: load the file, set total, enter the loop
process_users_begin(j) ==
  /\ jobs[j].pc = "launched"
  /\ \E n \in env.lens :
       /\ n <= env.rows
       /\ env' = [env EXCEPT !.rows = @ - n]
       /\ IF n = 0
          THEN /\ jobs' = [jobs EXCEPT ![j].pc = "empty"]
               /\ obs' = [obs EXCEPT ![j].flag0 = FALSE]
               /\ \E failed \in SUBSET env.flaky :
                    out' = Notified(j, "empty", <<>>, failed)
               /\ UNCHANGED session_stats
          ELSE /\ session_stats' = [session_stats EXCEPT !.total = n]
               /\ Iterate(j, 1, n)
  /\ awaited' = FALSE
  /\ UNCHANGED <<app, stop_event, user_data, call>>

\* add_user_to_group returns: count the outcome, then progress or sleep
add_return(j, ok) ==
  /\ jobs[j].pc = "adding"
  /\ session_stats' = Bump(session_stats, ok)
  /\ IF IsProgressPoint(jobs[j].idx)
     THEN LET data == <<jobs[j].idx, session_stats'.total,
                        session_stats'.success, session_stats'.failed>>
          IN /\ jobs' = [jobs EXCEPT ![j].pc = "notifying"]
             /\ obs' = [obs EXCEPT ![j].progress = Append(@, data)]
             /\ \E failed \in SUBSET env.flaky :
                  out' = Notified(j, "progress", data, failed)
     ELSE /\ jobs' = [jobs EXCEPT ![j].pc = "sleeping"]
          /\ out' = JobOut(j, <<>>)
          /\ UNCHANGED obs
  /\ UNCHANGED <<awaited, app, stop_event, user_data, env, call>>

\* the progress broadcast has been delivered: sleep
notify_return(j) ==
  /\ jobs[j].pc = "notifying"
  /\ jobs' = [jobs EXCEPT ![j].pc = "sleeping"]
  /\ out' = JobOut(j, <<>>)
  /\ UNCHANGED <<awaited, app, stop_event, session_stats, user_data, obs, env, call>>

sleep_return_silent(j) ==
  /\ jobs[j].pc = "sleeping"
  /\ IF jobs[j].idx = jobs[j].n
     THEN /\ jobs' = [jobs EXCEPT ![j].pc = "completed"]
          /\ out' = JobOut(j, <<>>)
          /\ UNCHANGED obs
     ELSE Iterate(j, jobs[j].idx + 1, jobs[j].n)
  /\ UNCHANGED <<awaited, app, stop_event, session_stats, user_data, env, call>>

\* asyncio.sleep returns: the next row, or the report after the last one
sleep_return(j) ==
  /\ jobs[j].pc = "sleeping"
  /\ IF jobs[j].idx = jobs[j].n
     THEN /\ jobs' = [jobs EXCEPT ![j].pc = "completed"]
          /\ \E failed \in SUBSET env.flaky :
               out' = Notified(j, "report",
                               <<session_stats.total, session_stats.success,
                                 session_stats.failed>>, failed)
          /\ UNCHANGED obs
     ELSE Iterate(j, jobs[j].idx + 1, jobs[j].n)
  /\ UNCHANGED <<awaited, app, stop_event, session_stats, user_data, env, call>>

Next ==
  \/ post_init
  \/ \E u \in env.users, t \in Texts : Denied(u, t)
  \/ \E u \in env.users : start(u)
  \/ \E u \in env.users : StartBtn(u)
  \/ \E u \in env.users : StopBtn(u)
  \/ \E u \in env.users : StatsBtn(u)
  \/ \E u \in env.users : AddBtn(u)
  \/ \E u \in env.users : CancelBtn(u)
  \/ \E u \in env.users, ok \in BOOLEAN : AdHocAdd(u, ok)
  \/ \E u \in env.users : IgnoredText(u)
  \/ \E j \in 1..Len(jobs) : process_users_begin(j)
  \/ \E j \in 1..Len(jobs), ok \in BOOLEAN : add_return(j, ok)
  \/ \E j \in 1..Len(jobs) : notify_return(j)
  \/ \E j \in 1..Len(jobs) : sleep_return(j)

Spec == Init /\ [][Next]_vars

\* ------------------------------------------------- the event loop is fair
\* a step of task j: the event loop resumes it when what it awaits is done
TaskStep(j) ==
  /\ j <= Len(jobs)
  /\ \/ process_users_begin(j)
     \/ \E ok \in BOOLEAN : add_return(j, ok)
     \/ notify_return(j)
     \/ sleep_return(j)

\* every call of the bot API and every asyncio.sleep returns, and the event
\* loop resumes the task that awaited it
Fairness == \A j \in 1..MaxJobs : WF_vars(TaskStep(j))

LiveSpec == Init /\ [][Next]_vars /\ Fairness

\* ------------------------------------------- the normalisation on its own
\* add_user_to_group is entered with a username
NormInit ==
  /\ app = "init"
  /\ stop_event = FALSE
  /\ session_stats = [success |-> 0, failed |-> 0, total |-> 0]
  /\ user_data = [u \in Users |-> FALSE]
  /\ jobs = <<>>
  /\ obs = <<>>
  /\ awaited = FALSE
  /\ out = CmdOut(0, <<>>)
  /\ env \in Scenarios
  /\ \E s \in Strings : call = [arg |-> s, username |-> s, passes |-> 0]

\* lines 92-93 run on the local variable username
Normalize ==
  /\ call.passes < MaxPasses
  /\ call' = [call EXCEPT !.username = normalize(@), !.passes = @ + 1]
  /\ UNCHANGED <<app, stop_event, session_stats, user_data, jobs, obs,
                 awaited, out, env>>

NormNext == Normalize

NormSpec == NormInit /\ [][NormNext]_vars

\* ------------------------------------------------------------ properties
Sum == session_stats.success + session_stats.failed

Begun(j) == jobs[j].pc \in Running \cup {"stopped", "completed"}

Denial(u) == <<Msg(u, "denied", <<>>)>>

\* task j has the counters to itself: the run makes no ad-hoc single add,
\* every earlier task had returned when j was created, no task was created
\* after it
Solo(j) == env.dialogs = 0 /\ obs[j].solo /\ j = Len(jobs)

\* C7: a request from a caller outside the admin list, whatever its text,
\* sends the denial reply to that caller and nothing else: the flag, the
\* counters, every awaiting-username marker and every task are unchanged, no
\* task is created and no admin is notified.
C7_DeniedChangesNothing ==
  [][ out'.caller \in Users \ AdminSet =>
        /\ stop_event' = stop_event
        /\ session_stats' = session_stats
        /\ user_data' = user_data
        /\ jobs' = jobs
        /\ out'.msgs = Denial(out'.caller) ]_vars

\* C7 witness: an outsider was denied while a task was running with the flag set
C7_Witness ==
  /\ out.caller \in Outsiders
  /\ out.msgs = Denial(out.caller)
  /\ stop_event
  /\ \E j \in 1..Len(jobs) : jobs[j].pc \in Running

InOrder(j) ==
  obs[j].attempts = [i \in 1..Len(obs[j].attempts) |-> i]

C8_State ==
  \A j \in 1..Len(jobs) :
    /\ InOrder(j)
    /\ Len(obs[j].attempts) <= jobs[j].n
    /\ jobs[j].pc = "completed" => Len(obs[j].attempts) = jobs[j].n
    /\ jobs[j].pc \in {"launched", "empty"} => obs[j].attempts = <<>>

C8_Step ==
  \A j \in 1..Len(jobs) :
    /\ (jobs[j].pc = "adding" /\ jobs'[j].pc # "adding") =>
         /\ jobs'[j].pc \in {"notifying", "sleeping"}
         /\ jobs'[j].idx = jobs[j].idx
         /\ \/ /\ session_stats'.success = session_stats.success + 1
               /\ session_stats'.failed = session_stats.failed
            \/ /\ session_stats'.success = session_stats.success
               /\ session_stats'.failed = session_stats.failed + 1
    /\ (jobs[j].pc \in Running /\ jobs'[j].pc = "stopped") => stop_event
    /\ (jobs[j].pc \in Running /\ jobs'[j].pc \notin Running) =>
         jobs'[j].pc \in {"stopped", "completed"}

\* C8: a task attempts the rows of its list in order, each at most once; the
\* return of an attempt adds exactly 1 to exactly one of success and failed
\* and leaves the task in the loop whatever the outcome; a task leaves the
\* loop early only with the flag set, and a completed task has attempted
\* every row exactly once.
C8_InOrderOnceEach == [][C8_State' /\ C8_Step]_vars

\* C8 witness: a task ran to completion over several rows although adds failed
C8_Witness ==
  /\ Len(jobs) = 1
  /\ jobs[1].pc = "completed"
  /\ jobs[1].n >= 2
  /\ obs[1].attempts = [i \in 1..jobs[1].n |-> i]
  /\ session_stats.failed >= 1
  /\ session_stats.success >= 1

\* C9: a task has sent one progress notification for each multiple of 10 its
\* processed count has reached and none at another count, in increasing
\* order, and processed, success and failed never decrease from one
\* notification to the next; a task awaits a progress broadcast only at a
\* multiple of 10, and then the broadcast carries the counters of that moment.
C9_ProgressEveryTen ==
  \A j \in 1..Len(jobs) :
    LET p == obs[j].progress IN
      /\ Len(p) = Processed(j) \div 10
      /\ \A i \in 1..Len(p) : p[i][1] = 10 * i
      /\ \A i \in 1..(Len(p) - 1) :
           /\ p[i][1] < p[i + 1][1]
           /\ p[i][3] <= p[i + 1][3]
           /\ p[i][4] <= p[i + 1][4]
      /\ jobs[j].pc = "notifying" => jobs[j].idx % 10 = 0
      /\ (out.job = j /\ jobs[j].pc = "notifying") =>
           /\ out.msgs = notify_admin("progress", p[Len(p)])
           /\ p[Len(p)] = <<jobs[j].idx, session_stats.total,
                            session_stats.success, session_stats.failed>>
      /\ (out.job = j /\ jobs[j].pc \in {"adding", "sleeping"}) =>
           out.msgs = <<>>

\* C9 witness: a task has sent its second progress notification, after failures
C9_Witness ==
  \E j \in 1..Len(jobs) :
    /\ Len(obs[j].progress) = 2
    /\ obs[j].progress[2][1] = 20
    /\ obs[j].progress[1][4] >= 1
    /\ obs[j].progress[2][4] > obs[j].progress[1][4]
    /\ obs[j].progress[2][3] > obs[j].progress[1][3]

\* C1: for the current task, success + failed <= processed <= total.  Stated
\* for a task that has the counters to itself.
C1_CountersWithinProcessed ==
  \A j \in 1..Len(jobs) :
    (Solo(j) /\ Begun(j)) =>
      /\ Sum <= Processed(j)
      /\ Processed(j) <= session_stats.total

\* C2: when a task sends its completion report, success + failed = N and
\* processed = N, and the report carries total = N and a success and a
\* failed count that add up to N.  Stated for a task that has the counters
\* to itself.
C2_ReportCountsTheJob ==
  \A j \in 1..Len(jobs) :
    (Solo(j) /\ out.job = j /\ jobs[j].pc = "completed") =>
      /\ Sum = jobs[j].n
      /\ Processed(j) = jobs[j].n
      /\ out.msgs[1].data[1] = jobs[j].n
      /\ out.msgs[1].data[2] + out.msgs[1].data[3] = jobs[j].n

\* C3: when a task is about to attempt its first row, the flag is clear and
\* the counters are success = 0, failed = 0, total = len(list).  Stated for
\* a task that has the counters to itself.
C3_StartResetsCounters ==
  \A j \in 1..Len(jobs) :
    (Solo(j) /\ out.job = j /\ jobs[j].pc = "adding" /\ jobs[j].idx = 1) =>
      /\ ~stop_event
      /\ session_stats = [success |-> 0, failed |-> 0, total |-> jobs[j].n]

\* C4: once Stop has been served while a task had processed k rows, that task
\* never attempts a row beyond k+1, whatever commands follow.
C4_NoIterationBeyondNext ==
  \A j \in 1..Len(jobs) :
    \A k \in obs[j].stop_first : Len(obs[j].attempts) <= k + 1

\* C5: a task that was in its delay after row k (k < N) when Stop was served,
\* no command following, ends stopped early and not completed, with the
\* stopped-early notification sent, total = N, success + failed <= k+1 and no
\* row beyond k+1 attempted.
C5_StopInDelayHalts ==
  \A j \in 1..Len(jobs) :
    \A k \in obs[j].stop_last :
      jobs[j].pc \notin Running =>
        /\ jobs[j].pc = "stopped"
        /\ out.job = j => out.msgs = notify_admin("stopped", <<>>)
        /\ session_stats.total = jobs[j].n
        /\ Sum <= k + 1
        /\ Len(obs[j].attempts) <= k + 1

\* C6: a Start that finds the list empty leaves the flag and the counters as
\* they were before the request: when the task created by the Start that was
\* served in the previous step finds no rows, the flag has the value it had
\* before that Start, the counters are unchanged and no row is attempted.
C6_EmptyStartChangesNothing ==
  [][ \A j \in 1..Len(jobs) :
        ( /\ j = Len(jobs)
          /\ out.caller \in AdminSet
          /\ out.msgs = Reply(out.caller, "loading", <<>>)
          /\ jobs[j].pc = "launched"
          /\ jobs'[j].pc = "empty" ) =>
          /\ stop_event' = obs[j].flag0
          /\ session_stats' = session_stats
          /\ obs'[j].attempts = <<>> ]_vars

\* C10: while a task is in its loop, total equals the length of its list.
C10_TotalFixedDuringJob ==
  \A j \in 1..Len(jobs) :
    jobs[j].pc \in Running => session_stats.total = jobs[j].n

\* C14: the username add_user_to_group looks up begins with '@'; it is the
\* argument itself when the argument begins with '@' and '@' + argument
\* otherwise; normalising it again changes nothing.
C14_NormalizeIdempotent ==
  call.passes >= 1 =>
    /\ startswith_at(call.username)
    /\ startswith_at(call.arg) => call.username = call.arg
    /\ ~startswith_at(call.arg) => call.username = <<"@">> \o call.arg
    /\ normalize(call.username) = call.username
    /\ call.username = normalize(call.arg)

\* C14 witness: "a" was normalised twice, and it is "@a"
C14_Witness ==
  /\ call.arg = <<"a">>
  /\ call.passes = MaxPasses
  /\ call.username = <<"@", "a">>

\* C14 witness, the other spelling: "@a" was normalised twice, and it is "@a"
C14_WitnessMarked ==
  /\ call.arg = <<"@", "a">>
  /\ call.passes = MaxPasses
  /\ call.username = <<"@", "a">>

\* the last step served the request of an admin with this reply
Served(text) ==
  /\ out.caller \in AdminSet
  /\ Len(out.msgs) = 1
  /\ out.msgs[1].to = out.caller
  /\ out.msgs[1].text = text

C11_Step ==
  Served("stop_ack")' =>
    /\ stop_event'
    /\ session_stats' = session_stats
    /\ jobs' = jobs
    /\ user_data' = user_data
    /\ app' = app
    /\ stop_event =>
          <<stop_event, session_stats, jobs, user_data, app>>' =
          <<stop_event, session_stats, jobs, user_data, app>>

\* C11: Stop can be served in every state the dispatcher is ready in (no task
\* yet, a task running, every task finished, flag set or clear); the step
\* that serves it leaves the flag set and the counters, the tasks and their
\* positions and the markers as they were and sends only the acknowledgement;
\* served with the flag already set it changes nothing at all.
C11_StopIdempotent ==
  /\ [](app = "polling" /\ ~awaited =>
          \A u \in env.users \cap AdminSet : ENABLED StopBtn(u))
  /\ [][C11_Step]_vars

\* C11 witness: Stop was served again after the only task had halted on the
\* flag, so with the flag already set and no task running
C11_Witness ==
  /\ Len(jobs) = 1
  /\ jobs[1].pc = "stopped"
  /\ stop_event
  /\ Served("stop_ack")

\* C12: the step that serves Stats leaves the counters, the flag, the tasks
\* and their positions and the markers as they were, and its reply carries
\* total, success and failed as they are at that moment and
\* total - success - failed, negative or not.
C12_StatsReadOnly ==
  [][ Served("stats")' =>
        /\ <<stop_event, session_stats, jobs, user_data, app>>' =
           <<stop_event, session_stats, jobs, user_data, app>>
        /\ out'.msgs[1].data =
             <<session_stats.total, session_stats.success,
               session_stats.failed,
               session_stats.total - session_stats.success
                 - session_stats.failed>> ]_vars

\* C12 witness: Stats was served while a task was in its loop and reported a
\* negative remainder
C12_Witness ==
  /\ Served("stats")
  /\ out.msgs[1].data[4] < 0
  /\ out.msgs[1].data[1] > 0
  /\ \E j \in 1..Len(jobs) : jobs[j].pc \in Running

\* the last step served an ad-hoc single add
ServedAdd == Served("added") \/ Served("not_added")

\* C13: the step that serves an ad-hoc single add, with the flag set or
\* clear, leaves the flag as it is, adds 1 to exactly one of success and
\* failed (one attempt), leaves total and every task and its position
\* unchanged, and replies with the success message exactly when it is success
\* that was incremented.
C13_AddOneCountsOnce ==
  [][ ServedAdd' =>
        /\ stop_event' = stop_event
        /\ session_stats'.total = session_stats.total
        /\ jobs' = jobs
        /\ \A j \in 1..Len(jobs) : obs'[j].attempts = obs[j].attempts
        /\ \/ /\ session_stats'.success = session_stats.success + 1
              /\ session_stats'.failed = session_stats.failed
              /\ Served("added")'
           \/ /\ session_stats'.success = session_stats.success
              /\ session_stats'.failed = session_stats.failed + 1
              /\ Served("not_added")' ]_vars

\* C13 witness: a single add succeeded while the flag was set and a task was
\* in its loop
C13_Witness ==
  /\ Served("added")
  /\ stop_event
  /\ session_stats.success >= 1
  /\ \E j \in 1..Len(jobs) : jobs[j].pc \in Running

\* task j starts the attempt of a row in this step
StartsAttempt(j) ==
  /\ jobs'[j].pc = "adding"
  /\ Len(obs'[j].attempts) = Len(obs[j].attempts) + 1

C15_Step ==
  /\ (~stop_event /\ stop_event') => Served("stop_ack")'
  /\ (stop_event /\ ~stop_event') =>
       /\ Served("loading")'
       /\ Len(jobs') = Len(jobs) + 1
       /\ jobs'[Len(jobs')].pc = "launched"
  /\ out'.job # 0 => stop_event' = stop_event
  /\ \A j \in 1..Len(jobs) :
       /\ StartsAttempt(j) => ~stop_event
       /\ (jobs[j].pc # "stopped" /\ jobs'[j].pc = "stopped") =>
            stop_event /\ stop_event'
       /\ (jobs[j].pc = "stopped" /\ stop_event /\ ~stop_event') =>
            Served("loading")'

Broadcast == out.job # 0 /\ out.msgs # <<>>

\* where a task is after it has called notify_admin with this text
PcAfter(text) ==
  CASE text = "progress" -> "notifying"
    [] text = "stopped" -> "stopped"
    [] text = "report" -> "completed"
    [] text = "empty" -> "empty"

C17_State ==
  Broadcast =>
    /\ out.failed \subseteq AdminSet
    /\ Len(out.msgs) = Len(ADMIN_IDS)
    /\ \A i \in 1..Len(ADMIN_IDS) :
         /\ out.msgs[i].to = ADMIN_IDS[i]
         /\ out.msgs[i].text = out.msgs[1].text
         /\ out.msgs[i].data = out.msgs[1].data
    /\ jobs[out.job].pc = PcAfter(out.msgs[1].text)

C17_Step ==
  /\ (Broadcast' /\ jobs' # jobs) =>
       Sum' = Sum + (IF out'.msgs[1].text = "progress" THEN 1 ELSE 0)
  /\ \A j \in 1..Len(jobs) :
       (jobs[j].pc = "notifying" /\ jobs'[j] # jobs[j]) =>
         /\ jobs'[j] = [jobs[j] EXCEPT !.pc = "sleeping"]
         /\ session_stats' = session_stats

\* C17: whichever sends of a broadcast fail, a send has been attempted for
\* every admin of the list, in list order and with the same text; the task is
\* where that broadcast leaves it when every send succeeds (after a progress
\* broadcast it goes on to its delay with the same position); and the
\* counters change by the add of that step only.
C17_DeliveryFailureHarmless == [][C17_State' /\ C17_Step]_vars

\* C17 witness: the send of a progress notification to the first admin
\* failed, the send to the second one was attempted all the same
C17_Witness ==
  /\ Broadcast
  /\ out.failed = {ADMIN_IDS[1]}
  /\ out.msgs[1].text = "progress"
  /\ out.msgs[2].to = ADMIN_IDS[2]
  /\ jobs[out.job].pc = "notifying"

\* the admins the last step sent something to
Recipients == {out.msgs[i].to : i \in 1..Len(out.msgs)}

\* C18: every notification that is not the reply to a request (startup,
\* progress, completion report, stopped early) is sent to every admin of
\* ADMIN_IDS.
C18_EveryEventToEveryAdmin ==
  (out.caller = 0 /\ out.msgs # <<>>) => Recipients = AdminSet

\* some task is suspended: it awaits the add call or the progress broadcast,
\* or it is in its delay
Suspended == \E j \in 1..Len(jobs) : jobs[j].pc \in Running

C16_State ==
  /\ (Suspended /\ NoneLaunched) =>
       \A u \in env.users \cap AdminSet :
         /\ ENABLED StopBtn(u)
         /\ ENABLED StatsBtn(u)
         /\ env.adds > 0 => ENABLED AddBtn(u)
         /\ user_data[u] =>
              ENABLED AdHocAdd(u, TRUE) /\ ENABLED AdHocAdd(u, FALSE)
  /\ Served("loading") =>
       /\ jobs[Len(jobs)].pc = "launched"
       /\ obs[Len(jobs)].attempts = <<>>
       /\ Processed(Len(jobs)) = 0

C16_Step ==
  (Served("stop_ack")' \/ Served("stats")' \/ ServedAdd') => jobs' = jobs

\* C16: whenever a task is suspended in its delay, in an add call or in a
\* broadcast (and every created task has had its first run), the dispatcher
\* can serve Stop and Stats for every admin, the add button, and the single
\* add of an admin whose marker is set; the step that serves one of them does
\* not move any task.  When the start button has just been answered, its task
\* has not attempted or processed any row.
C16_CommandsServiceable == [](C16_State) /\ [][C16_Step]_vars

\* C16 witness: a single add was served, after Stop, while a task was in its
\* delay with rows left
C16_Witness ==
  /\ ServedAdd
  /\ stop_event
  /\ \E j \in 1..Len(jobs) :
       jobs[j].pc = "sleeping" /\ jobs[j].idx < jobs[j].n

C20_Step ==
  /\ ServedAdd' =>
       /\ user_data[out'.caller]
       /\ user_data' = [user_data EXCEPT ![out'.caller] = FALSE]
       /\ Sum' = Sum + 1
  /\ (out'.caller # 0 /\ session_stats' # session_stats) => ServedAdd'
  /\ \A u \in Users :
       /\ (~user_data[u] /\ user_data'[u]) =>
            Served("ask_username")' /\ out'.caller = u
       /\ (user_data[u] /\ ~user_data'[u]) =>
            /\ out'.caller = u
            /\ ServedAdd' \/ Served("cancelled")'
  /\ Served("cancelled")' =>
       /\ user_data' = [user_data EXCEPT ![out'.caller] = FALSE]
       /\ session_stats' = session_stats
  /\ (Served("loading")' \/ Served("stop_ack")' \/ Served("stats")'
        \/ Served("ready")') =>
       /\ user_data' = user_data
       /\ session_stats' = session_stats
  /\ (out'.caller \in AdminSet /\ out'.msgs = <<>>) =>
       /\ ~user_data[out'.caller]
       /\ user_data' = user_data
       /\ session_stats' = session_stats

\* C20: a single add is attempted only in the step that serves a text of an
\* admin whose marker is set, and that step makes one attempt and clears that
\* admin's marker and no other; a marker becomes set only when its admin
\* presses the add button and becomes clear only by that admin's single add
\* or Cancel; Cancel attempts no add; the start, stop and stats buttons and
\* the /start command leave every marker as it is and attempt no add; a text
\* of an admin whose marker is clear does nothing.
C20_AddDialogProtocol == [][C20_Step]_vars

\* C20 witness: Stop was served for an admin whose marker is set, while a
\* task was in its loop, and the marker is still set
C20_Witness ==
  /\ Served("stop_ack")
  /\ user_data[out.caller]
  /\ \E u \in AdminSet : ~user_data[u]
  /\ Suspended

TerminalTexts == {"report", "stopped"}

C19_Step ==
  \A j \in 1..Len(jobs) :
    /\ jobs[j].pc \in Finished =>
         /\ jobs'[j] = jobs[j]
         /\ obs'[j].attempts = obs[j].attempts
         /\ obs'[j].progress = obs[j].progress
         /\ out' # out => out'.job # j
    /\ (jobs[j].pc \notin Finished /\ jobs'[j].pc \in {"stopped", "completed"}) =>
         /\ jobs'[j].n > 0
         /\ out'.job = j
         /\ Len(out'.msgs) = Len(ADMIN_IDS)
         /\ out'.msgs[1].text =
              (IF jobs'[j].pc = "stopped" THEN "stopped" ELSE "report")
    /\ (jobs[j].pc \notin Finished /\ jobs'[j].pc \notin Finished) =>
         ~(out'.job = j /\ out'.msgs # <<>>
            /\ out'.msgs[1].text \in TerminalTexts)
    /\ jobs'[j].pc = "empty" => jobs'[j].n = 0

\* the tasks are finitely many and one that has ended stays so: every task
\* ends exactly when, from some moment on, none is left in its loop
C19_Live == <>[](\A j \in 1..Len(jobs) : jobs[j].pc \notin Running)

\* C19: a task that has entered its loop (its list is not empty) ends, either
\* stopped early or completed; the step in which it ends sends the one
\* notification that goes with that end, the stopped-early notification or
\* the completion report; no step before it sends either of the two; and
\* after it the task does not move, attempts no row and sends nothing.
C19_TerminatesWithOneTerminal == [][C19_Step]_vars /\ C19_Live

\* C19 witness: one task has ended stopped early with rows left and another
\* has ended completed
C19_Witness ==
  \E i, j \in 1..Len(jobs) :
    /\ jobs[i].pc = "stopped"
    /\ jobs[i].n > 0
    /\ Len(obs[i].attempts) >= 1
    /\ jobs[j].pc = "completed"

====
